---- MODULE Spec2Model ----
(***************************************************************************)
(* The credential vault of gmail-mcp: the SQLite tables encryption_meta,   *)
(* accounts and credentials, the keystore operations (isLocked,            *)
(* tryUnwrapDek, lockDatabase, rotatePassword), the per-secret accessor    *)
(* of getGmailClient, and the CLI commands (start, add, list, remove,      *)
(* passwd) that drive them, each command running in its own OS process     *)
(* against the shared database file.                                       *)
(*                                                                         *)
(* Cryptography is symbolic: a derived key, a ciphertext and a tag are     *)
(* terms over their inputs, and a tag verifies only against the very key,  *)
(* nonce, associated data and ciphertext it was computed from.             *)
(* randomBytes hands out a value that occurs nowhere in the database or in *)
(* a running process, and OAuth a refresh token that belongs to the one    *)
(* account it was granted for.                                             *)
(***************************************************************************)
EXTENDS Integers, Sequences, FiniteSets, TLC

\* ------------------------------------------------------------------ bounds
NumProcs == 2
NumAccounts == 2
NumPasswords == 2
NumHints == 1
MaxOverlaps == 1

Procs == 1..NumProcs
Accounts == 1..NumAccounts
Passwords == 1..NumPasswords
Hints == 1..NumHints

\* A flag or option that was not given (flags.pass, opts.oldPass, opts.hint are
\* undefined; an empty string is falsy in the same tests).
NoPass == 0
NoHint == 0

\* ------------------------------------------------- nullable SQL columns
Null == <<>>
Val(v) == <<v>>
NotNull(c) == c # Null
Get(c) == c[1]

\* ------------------------------------------------------------- crypto.ts
JSONstringify(params) == <<"json", params.N, params.r, params.p, params.dkLen>>
JSONparse(s) == [N |-> s[2], r |-> s[3], p |-> s[4], dkLen |-> s[5]]

\* deriveKek as it would be if the password did not enter the key.
deriveKekNoPassword(password, salt, params) == <<"scrypt", NoPass, salt, params>>

\* crypto.scrypt is a deterministic function of password, salt and parameters.
deriveKek(password, salt, params) == <<"scrypt", password, salt, params>>

\* A value of n bytes handed out by crypto.randomBytes, named by a number.
randomBytes(n, name) == <<"rnd", n, name>>

\* The refresh token Google grants for the account linked as accountId.
refresh_token(accountId) == <<"1//", accountId>>

\* Buffer.from(s, 'utf8') and buf.toString('utf8').
BufferFrom(s) == <<"utf8", s>>
toString(buf) == buf[2]

NoAad == <<>>

\* AES-256-GCM with the nonce iv drawn by the caller's randomBytes(12).
encryptAesGcm(key, plaintext, aad, iv) ==
    LET ct == <<"gcm", key, iv, plaintext>>
    IN  [ct |-> ct, iv |-> iv, tag |-> <<"ghash", key, iv, aad, ct>>]

AuthFailure == [ok |-> FALSE, pt |-> <<>>]

\* tag.subarray(0, n): the first n bytes of a tag.
subarray(tag, n) == <<"subarray", tag, n>>

\* The lengths in bytes, below the 16 that getAuthTag returns, of the tags
\* setAuthTag takes for GCM: createDecipheriv is called without the
\* authTagLength option (line 356), so every length NIST SP 800-38D allows
\* is accepted and the tag is verified over that many bytes.
ShortTagLengths == {4, 8, 12, 13, 14, 15}

\* decipher.final() throws unless the tag verifies under key, iv, aad and
\* ct: it is the 16-byte tag of the encryption, or one of its accepted
\* prefixes.
decryptAesGcm(key, iv, tag, ct, aad) ==
    LET full == <<"ghash", key, iv, aad, ct>>
    IN  IF \/ tag = full
           \/ tag[1] = "subarray" /\ tag[2] = full /\ tag[3] \in ShortTagLengths
        THEN [ok |-> TRUE, pt |-> ct[4]]
        ELSE AuthFailure

\* The associated data as it would be without the account id in it.
aadOfNoAccount(accountId) == <<"credentials.refresh_token", "v1">>

\* The associated data of a credential: `credentials.refresh_token:${id}:v1`.
aadOf(accountId) == <<"credentials.refresh_token", accountId, "v1">>

\* ------------------------------------------------------------ the state
VARIABLES
    meta,       \* encryption_meta: Null, or Val(the row with id=1)
    accounts,   \* accounts: the ids of the rows
    creds,      \* credentials: account_id -> Null, or Val(the row)
    pc,         \* per process: where its command stands
    loc,        \* per process: the command's flags and local variables
    linked,     \* history: account_id -> the refresh token OAuth returned for it
    wrapped,    \* history: the latest lock or rotation, and its passwords
    overlaps,   \* history: commands launched while another process was running
    release     \* the release of the code that is installed

vars == <<meta, accounts, creds, pc, loc, linked, wrapped, overlaps, release>>
db == <<meta, accounts, creds>>

\* INSERT INTO encryption_meta(id,is_locked,version,kdf) VALUES(1,0,1,'scrypt')
FreshMeta ==
    [is_locked |-> 0, version |-> 1, kdf |-> "scrypt", kdf_salt |-> Null,
     kdf_params_json |-> Null, dek_ct |-> Null, dek_iv |-> Null,
     dek_tag |-> Null, password_hint |-> Null]

\* add as it would be if the plaintext INSERT also filled the ciphertext
\* columns.
PlainCredBothForms(token) ==
    LET enc == encryptAesGcm(randomBytes(32, 0), BufferFrom(token), NoAad,
                             randomBytes(12, 0))
    IN  [refresh_token |-> Val(token), refresh_token_ct |-> Val(enc.ct),
         refresh_token_iv |-> Val(enc.iv), refresh_token_tag |-> Val(enc.tag)]

PlainCred(token) ==
    [refresh_token |-> Val(token), refresh_token_ct |-> Null,
     refresh_token_iv |-> Null, refresh_token_tag |-> Null]

CipherCred(enc) ==
    [refresh_token |-> Null, refresh_token_ct |-> Val(enc.ct),
     refresh_token_iv |-> Val(enc.iv), refresh_token_tag |-> Val(enc.tag)]

NotWrapped == [op |-> "none", pass |-> NoPass, oldPass |-> NoPass]

NoLocals ==
    [cmd |-> "none", pass |-> NoPass, oldPass |-> NoPass, rotate |-> FALSE,
     hint |-> NoHint, key |-> 0, locked |-> FALSE, dek |-> Null,
     rowHint |-> Null, rows |-> {}, read |-> "none", tool |-> "none",
     result |-> "none", data |-> Null]

Init ==
    /\ meta = Null
    /\ accounts = {}
    /\ creds = [a \in Accounts |-> Null]
    /\ pc = [p \in Procs |-> "exited"]
    /\ loc = [p \in Procs |-> NoLocals]
    /\ linked = [a \in Accounts |-> Null]
    /\ wrapped = NotWrapped
    /\ overlaps = 0
    /\ release = "D1"

\* ---------------------------------------------------------- keystore.ts
\* The releases of the code: D1 is this source, D2 a later one whose
\* DEFAULT_KDF was raised.
Releases == {"D1", "D2"}

KdfOfRelease(rel) ==
    IF rel = "D1" THEN [N |-> 32768, r |-> 8, p |-> 1, dkLen |-> 32]
    ELSE [N |-> 65536, r |-> 8, p |-> 1, dkLen |-> 32]

\* const DEFAULT_KDF (line 5), as the installed release has it.
DEFAULT_KDF == KdfOfRelease(release)

isLocked(m) == NotNull(m) /\ Get(m).is_locked # 0

\* The parameters as they would be if the stored ones were not read.
KdfParamsOfDefaults(row) == DEFAULT_KDF

\* Lines 18, 42 and 61: the parameters stored in the row, or the defaults.
KdfParamsOf(row) ==
    IF NotNull(row.kdf_params_json) THEN JSONparse(Get(row.kdf_params_json))
    ELSE DEFAULT_KDF

\* Lines 18-21, 42-44 and 61-64: derive the KEK from the password and the
\* row's salt and parameters, and unwrap the row's DEK with it.
UnwrapRow(row, password) ==
    decryptAesGcm(deriveKek(password, Get(row.kdf_salt), KdfParamsOf(row)),
                  Get(row.dek_iv), Get(row.dek_tag), Get(row.dek_ct), NoAad)

Thrown(msg) == [ok |-> FALSE, err |-> msg, dek |-> Null]

tryUnwrapDek(m, password) ==
    IF m = Null THEN Thrown("encryption_meta missing")
    ELSE IF Get(m).kdf_salt = Null \/ Get(m).dek_ct = Null
         THEN Thrown("database is not locked")
    ELSE LET r == UnwrapRow(Get(m), password)
         IN  IF r.ok THEN [ok |-> TRUE, err |-> "", dek |-> Val(r.pt)]
             ELSE Thrown("authentication failure")

\* lockDatabase as it would be if it stored the DEK itself in dek_ct.
LockedRowStoresDek(row, password, hint, salt, dek, iv) ==
    LET enc == encryptAesGcm(deriveKek(password, salt, DEFAULT_KDF), dek, NoAad, iv)
    IN  [row EXCEPT !.is_locked = 1,
                    !.kdf_salt = Val(salt),
                    !.kdf_params_json = Val(JSONstringify(DEFAULT_KDF)),
                    !.dek_ct = Val(dek), !.dek_iv = Val(enc.iv),
                    !.dek_tag = Val(enc.tag),
                    !.password_hint = IF hint # NoHint THEN Val(hint) ELSE Null]

\* lockDatabase as it would be if the UPDATE did not set is_locked.
LockedRowFlagUnset(row, password, hint, salt, dek, iv) ==
    LET enc == encryptAesGcm(deriveKek(password, salt, DEFAULT_KDF), dek, NoAad, iv)
    IN  [row EXCEPT !.kdf_salt = Val(salt),
                    !.kdf_params_json = Val(JSONstringify(DEFAULT_KDF)),
                    !.dek_ct = Val(enc.ct), !.dek_iv = Val(enc.iv),
                    !.dek_tag = Val(enc.tag),
                    !.password_hint = IF hint # NoHint THEN Val(hint) ELSE Null]

\* The row lockDatabase writes in its first transaction (lines 27-34);
\* salt, dek and iv are what randomBytes(16), (32) and (12) return.
LockedRow(row, password, hint, salt, dek, iv) ==
    LET enc == encryptAesGcm(deriveKek(password, salt, DEFAULT_KDF), dek, NoAad, iv)
    IN  [row EXCEPT !.is_locked = 1,
                    !.kdf_salt = Val(salt),
                    !.kdf_params_json = Val(JSONstringify(DEFAULT_KDF)),
                    !.dek_ct = Val(enc.ct), !.dek_iv = Val(enc.iv),
                    !.dek_tag = Val(enc.tag),
                    !.password_hint = IF hint # NoHint THEN Val(hint) ELSE Null]

\* rotatePassword as it would be if it stored the new salt and derived the
\* new KEK from the old one.
RotatedRowOldSalt(row, dek, newPass, hint, rowHint, newSalt, iv) ==
    LET enc == encryptAesGcm(deriveKek(newPass, Get(row.kdf_salt), DEFAULT_KDF), dek,
                             NoAad, iv)
    IN  [row EXCEPT !.kdf_salt = Val(newSalt),
                    !.kdf_params_json = Val(JSONstringify(DEFAULT_KDF)),
                    !.dek_ct = Val(enc.ct), !.dek_iv = Val(enc.iv),
                    !.dek_tag = Val(enc.tag),
                    !.password_hint = IF hint # NoHint THEN Val(hint) ELSE rowHint]

\* rotatePassword as it would be if it made a new DEK, as lockDatabase does.
RotatedRowNewDek(row, dek, newPass, hint, rowHint, newSalt, iv) ==
    LET enc == encryptAesGcm(deriveKek(newPass, newSalt, DEFAULT_KDF),
                             randomBytes(32, dek[3] + 1), NoAad, iv)
    IN  [row EXCEPT !.kdf_salt = Val(newSalt),
                    !.kdf_params_json = Val(JSONstringify(DEFAULT_KDF)),
                    !.dek_ct = Val(enc.ct), !.dek_iv = Val(enc.iv),
                    !.dek_tag = Val(enc.tag),
                    !.password_hint = IF hint # NoHint THEN Val(hint) ELSE rowHint]

\* The row rotatePassword writes (lines 66-72): the DEK it unwrapped, wrapped
\* under a KEK from the new password and a fresh salt; rowHint is the hint of
\* the row it read, newSalt and iv what randomBytes(16) and (12) return.
RotatedRow(row, dek, newPass, hint, rowHint, newSalt, iv) ==
    LET enc == encryptAesGcm(deriveKek(newPass, newSalt, DEFAULT_KDF), dek, NoAad, iv)
    IN  [row EXCEPT !.kdf_salt = Val(newSalt),
                    !.kdf_params_json = Val(JSONstringify(DEFAULT_KDF)),
                    !.dek_ct = Val(enc.ct), !.dek_iv = Val(enc.iv),
                    !.dek_tag = Val(enc.tag),
                    !.password_hint = IF hint # NoHint THEN Val(hint) ELSE rowHint]

\* The rows of lockDatabase's SELECT (line 38): <<account_id, refresh_token>>.
PlaintextRows ==
    {<<a, Get(Get(creds[a]).refresh_token)>> :
        a \in {b \in Accounts : NotNull(creds[b]) /\ NotNull(Get(creds[b]).refresh_token)}}

\* The position of account a in the rows, which come in insertion order.
RowIndex(rows, a) == Cardinality({r \in rows : r[1] <= a})

\* lockDatabase as it would be if it encrypted without associated data.
EncryptedCredsNoAad(cr, rows, dek, ivs) ==
    [a \in Accounts |->
        IF \E r \in rows : r[1] = a /\ NotNull(cr[a])
        THEN LET r == CHOOSE x \in rows : x[1] = a
             IN  Val(CipherCred(encryptAesGcm(dek, BufferFrom(r[2]), NoAad,
                                              ivs[RowIndex(rows, a)])))
        ELSE cr[a]]

\* lockDatabase as it would be if it left refresh_token in place.
EncryptedCredsKeepPlain(cr, rows, dek, ivs) ==
    [a \in Accounts |->
        IF \E r \in rows : r[1] = a /\ NotNull(cr[a])
        THEN LET r == CHOOSE x \in rows : x[1] = a
                 enc == encryptAesGcm(dek, BufferFrom(r[2]), aadOf(a),
                                      ivs[RowIndex(rows, a)])
             IN  Val([CipherCred(enc) EXCEPT !.refresh_token = Val(r[2])])
        ELSE cr[a]]

\* The credentials table after lockDatabase's second transaction (46-54):
\* every selected row is encrypted under dek with its own associated data and
\* nonce ivs[i]; an UPDATE whose account_id matches no row changes nothing.
EncryptedCreds(cr, rows, dek, ivs) ==
    [a \in Accounts |->
        IF \E r \in rows : r[1] = a /\ NotNull(cr[a])
        THEN LET r == CHOOSE x \in rows : x[1] = a
             IN  Val(CipherCred(encryptAesGcm(dek, BufferFrom(r[2]), aadOf(a),
                                              ivs[RowIndex(rows, a)])))
        ELSE cr[a]]

\* --------------------------------------------------------------- gmail.ts
Failed(msg) == [ok |-> FALSE, err |-> msg, refreshToken |-> Null, path |-> "none"]

\* getGmailClient as it would be if it asked for the DEK before looking at
\* the plaintext column.
getGmailClientDekFirst(dek, accountId, cred) ==
    IF cred = Null THEN Failed("Account credentials not found")
    ELSE IF dek = Null
         THEN Failed("Database is locked and password has not been provided")
    ELSE IF NotNull(Get(cred).refresh_token)
         THEN [ok |-> TRUE, err |-> "", refreshToken |-> Get(cred).refresh_token,
               path |-> "plain"]
    ELSE LET r == decryptAesGcm(Get(dek), Get(Get(cred).refresh_token_iv),
                                Get(Get(cred).refresh_token_tag),
                                Get(Get(cred).refresh_token_ct), aadOf(accountId))
         IN  IF r.ok THEN [ok |-> TRUE, err |-> "", refreshToken |-> Val(toString(r.pt)),
                           path |-> "decrypted"]
             ELSE Failed("authentication failure")

\* getGmailClient, lines 31-41: the refresh token the client is built with.
getGmailClient(dek, accountId, cred) ==
    IF cred = Null THEN Failed("Account credentials not found")
    ELSE IF NotNull(Get(cred).refresh_token)
         THEN [ok |-> TRUE, err |-> "", refreshToken |-> Get(cred).refresh_token,
               path |-> "plain"]
    ELSE IF dek = Null
         THEN Failed("Database is locked and password has not been provided")
    ELSE LET r == decryptAesGcm(Get(dek), Get(Get(cred).refresh_token_iv),
                                Get(Get(cred).refresh_token_tag),
                                Get(Get(cred).refresh_token_ct), aadOf(accountId))
         IN  IF r.ok THEN [ok |-> TRUE, err |-> "", refreshToken |-> Val(toString(r.pt)),
                           path |-> "decrypted"]
             ELSE Failed("authentication failure")

\* ------------------------------------------------------------------ db.ts
\* migrate as it would be with INSERT OR REPLACE.
migrateReplace(m) == Val(FreshMeta)

\* migrate as it would be if the row it inserts had is_locked = 1.
migrateLockedDefault(m) ==
    IF m = Null THEN Val([FreshMeta EXCEPT !.is_locked = 1]) ELSE m

\* migrate: the tables are created if missing and the metadata row is
\* inserted only when there is none.
migrate(m) == IF m = Null THEN Val(FreshMeta) ELSE m

\* ------------------------------------------------------- fresh values
\* The random values that occur in the database or in a running process: the
\* salt, the nonces, and the DEKs (wrapped in the metadata, used as the key
\* of a credential, or held by a process).
RowRnd(row) ==
    IF row.dek_ct = Null THEN {}
    ELSE {Get(row.kdf_salt), Get(row.dek_iv), Get(row.dek_ct)[4]}

CredRnd(cred) ==
    IF cred = Null \/ Get(cred).refresh_token_ct = Null THEN {}
    ELSE {Get(Get(cred).refresh_token_iv), Get(Get(cred).refresh_token_ct)[2]}

UsedRnd ==
    (IF meta = Null THEN {} ELSE RowRnd(Get(meta)))
    \cup UNION {CredRnd(creds[a]) : a \in Accounts}
    \cup {Get(loc[p].dek) : p \in {q \in Procs : NotNull(loc[q].dek)}}

\* The i-th least number outside the set used.
Unused(used, i) ==
    LET free == (1..(Cardinality(used) + i)) \ used
    IN  CHOOSE n \in free : Cardinality({m \in free : m < n}) = i - 1

\* What the i-th of a run of calls of crypto.randomBytes(n) returns: a value
\* of n bytes that occurs nowhere yet, and differs from the run's others.
Fresh(n, i) == randomBytes(n, Unused({v[3] : v \in {u \in UsedRnd : u[2] = n}}, i))

\* crypto.randomUUID: an id no account has and no process holds.
UsedIds ==
    accounts \cup {loc[p].key : p \in Procs}
    \cup UNION {{r[1] : r \in loc[p].rows} : p \in Procs}

\* ------------------------------------------------------ the CLI commands
Goto(p, label, l) ==
    /\ pc' = [pc EXCEPT ![p] = label]
    /\ loc' = [loc EXCEPT ![p] = l]

\* process.exit, the command's normal end, or an error reported by the
\* top-level catch (outcome is what the command prints): the process is gone,
\* and its memory with it.
Exit(p, outcome) == Goto(p, "exited", NoLocals)

\* No other process is running.
Alone(p) == \A q \in Procs \ {p} : pc[q] = "exited"

\* A command is launched, beside a running process at most MaxOverlaps times.
Launched(p) ==
    /\ Alone(p) \/ overlaps < MaxOverlaps
    /\ overlaps' = IF Alone(p) THEN overlaps ELSE overlaps + 1

\* The commands that keep the DEK tryUnwrapDek returns: start (line 41 of
\* the CLI) and add (line 78).
KeepsDek == {"start", "start --read-only", "add"}

\* Where a command continues once the password check is behind it.
Body(cmd) ==
    CASE cmd = "start" -> "serving"
      [] cmd = "start --read-only" -> "serving"
      [] cmd = "add" -> "oauth"
      [] cmd = "list" -> "list"
      [] cmd = "remove" -> "remove"

\* The commands as they would be without the test for a missing password.
LaunchNoPasswordTest(p, cmd, pass, key) ==
    /\ pc[p] = "exited"
    /\ meta' = migrate(meta)
    /\ LET locked == isLocked(meta')
           l == [NoLocals EXCEPT !.cmd = cmd, !.locked = locked, !.key = key]
       IN  IF ~locked \/ pass = NoPass THEN Goto(p, Body(cmd), l)
           ELSE Goto(p, "tryUnwrapDek", [l EXCEPT !.pass = pass])
    /\ Launched(p)
    /\ UNCHANGED <<accounts, creds, linked, wrapped, release>>

\* start, add, list and remove up to the password test (lines 25-38, 62-75,
\* 144-156, 175-187): the flags are parsed, the database is opened, migrate
\* runs, is_locked is read, and a locked database without a password ends
\* the command. Once the metadata row exists migrate writes nothing, so it is
\* taken in one step with the read that follows it. A local that is not read
\* again is not kept.
Launch(p, cmd, pass, key) ==
    /\ pc[p] = "exited"
    /\ meta' = migrate(meta)
    /\ LET locked == isLocked(meta')
           l == [NoLocals EXCEPT !.cmd = cmd, !.locked = locked, !.key = key]
       IN  IF ~locked THEN Goto(p, Body(cmd), l)
           ELSE IF pass = NoPass THEN Exit(p, "exit 11: database is locked")
           ELSE Goto(p, "tryUnwrapDek", [l EXCEPT !.pass = pass])
    /\ Launched(p)
    /\ UNCHANGED <<accounts, creds, linked, wrapped, release>>

start(p) == \E pass \in Passwords \cup {NoPass} : Launch(p, "start", pass, 0)

\* start --read-only: startMcp gets readOnly = true (line 51).
startReadOnly(p) ==
    \E pass \in Passwords \cup {NoPass} : Launch(p, "start --read-only", pass, 0)

add(p) == \E pass \in Passwords \cup {NoPass} : Launch(p, "add", pass, 0)

list(p) == \E pass \in Passwords \cup {NoPass} : Launch(p, "list", pass, 0)

remove(p) ==
    \E pass \in Passwords \cup {NoPass}, key \in Accounts : Launch(p, "remove", pass, key)

\* passwd, lines 207-240, up to the call of rotatePassword or lockDatabase:
\* rotate when --rotate was given or the database is locked, lock otherwise.
passwd(p) ==
    /\ pc[p] = "exited"
    /\ meta' = migrate(meta)
    /\ \E pass \in Passwords \cup {NoPass}, rotate \in BOOLEAN, hint \in Hints \cup {NoHint} :
       \E optOldPass \in IF rotate THEN Passwords \cup {NoPass} ELSE {NoPass} :
       LET locked == isLocked(meta')
           oldPass == IF rotate THEN optOldPass ELSE pass
           l == [NoLocals EXCEPT !.cmd = "passwd", !.pass = pass, !.hint = hint]
       IN  IF rotate \/ locked
           THEN IF oldPass = NoPass THEN Exit(p, "exit 2: rotation requires --old-pass")
                ELSE IF pass = NoPass THEN Exit(p, "exit 2: provide new password")
                ELSE Goto(p, "rotatePassword", [l EXCEPT !.oldPass = oldPass])
           ELSE IF pass = NoPass THEN Exit(p, "exit 2: provide password")
                ELSE Goto(p, "lockDatabase", l)
    /\ Launched(p)
    /\ UNCHANGED <<accounts, creds, linked, wrapped, release>>

\* The unlock as it would be if a successful tryUnwrapDek wrapped the DEK
\* again under a new salt and nonce.
UnwrapRewraps(p) ==
    /\ pc[p] = "tryUnwrapDek"
    /\ LET uw == tryUnwrapDek(meta, loc[p].pass)
       IN  IF ~uw.ok
           THEN Exit(p, "exit 11: password is incorrect") /\ meta' = meta
           ELSE /\ Goto(p, Body(loc[p].cmd),
                        [loc[p] EXCEPT !.pass = NoPass,
                                       !.dek = IF loc[p].cmd \in KeepsDek
                                               THEN uw.dek ELSE Null])
                /\ meta' = Val(RotatedRow(Get(meta), Get(uw.dek), loc[p].pass, NoHint,
                                          Get(meta).password_hint, Fresh(16, 1),
                                          Fresh(12, 1)))
    /\ UNCHANGED <<accounts, creds, linked, wrapped, overlaps, release>>

\* start, add, list, remove on a locked database: tryUnwrapDek with the
\* given password (lines 39-45, 76-82, 157-160, 188-191); only start and add
\* keep the DEK.
Unwrap(p) ==
    /\ pc[p] = "tryUnwrapDek"
    /\ LET uw == tryUnwrapDek(meta, loc[p].pass)
       IN  IF ~uw.ok THEN Exit(p, "exit 11: password is incorrect")
           ELSE Goto(p, Body(loc[p].cmd),
                     [loc[p] EXCEPT !.pass = NoPass,
                                    !.dek = IF loc[p].cmd \in KeepsDek
                                            THEN uw.dek ELSE Null])
    /\ UNCHANGED <<db, linked, wrapped, overlaps, release>>

\* The running server handles a tool call for account a: getGmailClient with
\* the session's cfg.dek.
ReadSecret(p, a) ==
    /\ pc[p] = "serving"
    /\ LET r == getGmailClient(loc[p].dek, a, creds[a])
       IN  Goto(p, "serving",
                [loc[p] EXCEPT !.read =
                    IF ~r.ok THEN r.err
                    ELSE IF r.path = "plain" /\ isLocked(meta) THEN "plain while locked"
                    ELSE r.path])
    /\ UNCHANGED <<db, linked, wrapped, overlaps, release>>

\* cfg.readOnly of the server process p (buildTools, config.ts line 60).
readOnly(p) == loc[p].cmd = "start --read-only"

ReadOnlyError == "Server is in read-only mode"

\* modifyLabels (gmail.ts 145-154): what the call ends with, the Gmail API
\* method it reached or the error it threw.
modifyLabels(ro, dek, accountId, cred) ==
    IF ro THEN ReadOnlyError
    ELSE LET r == getGmailClient(dek, accountId, cred)
         IN  IF r.ok THEN "gmail.users.messages.modify" ELSE r.err

\* sendMessage (gmail.ts 156-165).
sendMessage(ro, dek, accountId, cred) ==
    IF ro THEN ReadOnlyError
    ELSE LET r == getGmailClient(dek, accountId, cred)
         IN  IF r.ok THEN "gmail.users.messages.send" ELSE r.err

\* The handler of gmail-label_message (config.ts 273-279): the input is
\* parsed, the account is looked up, and modifyLabels is called. valid says
\* whether the input has the schema's shape, key is its account.
LabelMessage(p, valid, key) ==
    /\ pc[p] = "serving"
    /\ Goto(p, "serving",
            [loc[p] EXCEPT !.tool = "gmail-label_message",
                           !.result =
                               IF ~valid THEN "ZodError"
                               ELSE IF key \notin accounts THEN "Account not found"
                               ELSE modifyLabels(readOnly(p), loc[p].dek, key,
                                                 creds[key])])
    /\ UNCHANGED <<db, linked, wrapped, overlaps, release>>

\* The handler of gmail-send_message (config.ts 302-310): read-only mode is
\* tested before the input is parsed.
SendMessage(p, valid, key) ==
    /\ pc[p] = "serving"
    /\ Goto(p, "serving",
            [loc[p] EXCEPT !.tool = "gmail-send_message",
                           !.result =
                               IF readOnly(p) THEN ReadOnlyError
                               ELSE IF ~valid THEN "ZodError"
                               ELSE IF key \notin accounts THEN "Account not found"
                               ELSE sendMessage(readOnly(p), loc[p].dek, key,
                                                creds[key])])
    /\ UNCHANGED <<db, linked, wrapped, overlaps, release>>

\* The MCP client closes the server's stdio.
StopServer(p) ==
    /\ pc[p] = "serving"
    /\ Exit(p, "stopped")
    /\ UNCHANGED <<db, linked, wrapped, overlaps, release>>

\* Where add stands between the password check and its INSERT: "oauth" is
\* lines 85-117 taken as one step, whichever flow runs; "profile" is lines
\* 107-117 once deviceCodeFlow has returned.
Linking == {"oauth", "profile"}

\* The error values for which deviceCodeFlow polls again (oauth.ts line 107).
RetryErrors == {"authorization_pending", "slow_down"}

\* What the token endpoint may answer to a poll: error "" stands for a
\* response without an error member (or with a falsy one); refresh_token
\* tells whether the response carries one.
TokenResponses ==
    [error : RetryErrors \cup {"access_denied", "expired_token"},
     refresh_token : {FALSE}]
    \cup [error : {""}, refresh_token : BOOLEAN]

\* add --device: deviceCodeFlow up to its loop (oauth.ts 73-91), the device
\* code request having succeeded; when it fails the command ends (AddFail).
DeviceCode(p) ==
    /\ pc[p] = "oauth"
    /\ Goto(p, "devicePoll", loc[p])
    /\ UNCHANGED <<db, linked, wrapped, overlaps, release>>

\* One turn of the loop up to the response (oauth.ts 94-105): the interval
\* passes and the token endpoint answers data.
DevicePoll(p, data) ==
    /\ pc[p] = "devicePoll"
    /\ Goto(p, "deviceCheck", [loc[p] EXCEPT !.data = Val(data)])
    /\ UNCHANGED <<db, linked, wrapped, overlaps, release>>

\* deviceCodeFlow as it would be if it polled again on every error.
DeviceCheckRetriesAll(p) ==
    /\ pc[p] = "deviceCheck"
    /\ LET data == Get(loc[p].data)
       IN  IF data.error # "" THEN Goto(p, "devicePoll", [loc[p] EXCEPT !.data = Null])
           ELSE IF ~data.refresh_token
           THEN Exit(p, "No refresh_token in device flow result")
           ELSE Goto(p, "profile", loc[p])
    /\ UNCHANGED <<db, linked, wrapped, overlaps, release>>

\* The rest of the turn (oauth.ts 106-119): poll again, throw, or return the
\* response's tokens to add.
DeviceCheck(p) ==
    /\ pc[p] = "deviceCheck"
    /\ LET data == Get(loc[p].data)
       IN  IF data.error # ""
           THEN IF data.error \in RetryErrors
                THEN Goto(p, "devicePoll", [loc[p] EXCEPT !.data = Null])
                ELSE Exit(p, "Device flow error")
           ELSE IF ~data.refresh_token
           THEN Exit(p, "No refresh_token in device flow result")
           ELSE Goto(p, "profile", loc[p])
    /\ UNCHANGED <<db, linked, wrapped, overlaps, release>>

\* add, lines 85-117: the client id or secret is missing, the OAuth flow
\* throws, or the profile has no email; or the INSERT into accounts violates
\* the UNIQUE email constraint and the transaction is rolled back.
AddFail(p) ==
    /\ pc[p] \in Linking
    /\ Exit(p, "add failed")
    /\ UNCHANGED <<db, linked, wrapped, overlaps, release>>

\* add as it would be if it encrypted the new secret without associated
\* data.
AddInsertNoAad(p) ==
    /\ pc[p] \in Linking
    /\ Accounts \ UsedIds # {}
    /\ LET id == Unused(UsedIds, 1)
           token == refresh_token(id)
       IN  /\ accounts' = accounts \cup {id}
           /\ creds' = [creds EXCEPT ![id] =
                  IF loc[p].locked /\ NotNull(loc[p].dek)
                  THEN Val(CipherCred(encryptAesGcm(Get(loc[p].dek), BufferFrom(token),
                                                    NoAad, Fresh(12, 1))))
                  ELSE Val(PlainCred(token))]
           /\ linked' = [linked EXCEPT ![id] = Val(token)]
    /\ Exit(p, "linked")
    /\ UNCHANGED <<meta, wrapped, overlaps, release>>

\* add, lines 119-137: the account and its credential are inserted in one
\* transaction, encrypted when the command saw a locked database.
AddInsert(p) ==
    /\ pc[p] \in Linking
    /\ Accounts \ UsedIds # {}
    /\ LET id == Unused(UsedIds, 1)
           token == refresh_token(id)
       IN  /\ accounts' = accounts \cup {id}
           /\ creds' = [creds EXCEPT ![id] =
                  IF loc[p].locked /\ NotNull(loc[p].dek)
                  THEN Val(CipherCred(encryptAesGcm(Get(loc[p].dek), BufferFrom(token),
                                                    aadOf(id), Fresh(12, 1))))
                  ELSE Val(PlainCred(token))]
           /\ linked' = [linked EXCEPT ![id] = Val(token)]
    /\ Exit(p, "linked")
    /\ UNCHANGED <<meta, wrapped, overlaps, release>>

\* list, lines 163-167.
List(p) ==
    /\ pc[p] = "list"
    /\ Exit(p, "listed")
    /\ UNCHANGED <<db, linked, wrapped, overlaps, release>>

\* remove, lines 194-197: the account row goes, and its credential with it
\* (ON DELETE CASCADE).
Remove(p) ==
    /\ pc[p] = "remove"
    /\ accounts' = accounts \ {loc[p].key}
    /\ creds' = [creds EXCEPT ![loc[p].key] = Null]
    /\ linked' = [linked EXCEPT ![loc[p].key] = Null]
    /\ Exit(p, "removed")
    /\ UNCHANGED <<meta, wrapped, overlaps, release>>

\* rotatePassword as it would be if it stored the new hint before it
\* unwrapped the DEK with the old password.
RotateReadStoresHint(p) ==
    /\ pc[p] = "rotatePassword"
    /\ IF meta = Null THEN Exit(p, "encryption_meta missing") /\ meta' = meta
       ELSE IF Get(meta).is_locked = 0
       THEN Exit(p, "database is not locked") /\ meta' = meta
       ELSE LET r == UnwrapRow(Get(meta), loc[p].oldPass)
            IN  /\ meta' = IF loc[p].hint = NoHint THEN meta
                           ELSE Val([Get(meta) EXCEPT !.password_hint = Val(loc[p].hint)])
                /\ IF ~r.ok THEN Exit(p, "authentication failure")
                   ELSE Goto(p, "rotateUpdate",
                             [loc[p] EXCEPT !.dek = Val(r.pt),
                                            !.rowHint = Get(meta).password_hint])
    /\ UNCHANGED <<accounts, creds, linked, wrapped, overlaps, release>>

\* rotatePassword as it would be if an unlocked database were locked instead.
RotateReadLocks(p) ==
    /\ pc[p] = "rotatePassword"
    /\ IF meta = Null THEN Exit(p, "encryption_meta missing")
       ELSE IF Get(meta).is_locked = 0 THEN Goto(p, "lockDatabase", loc[p])
       ELSE LET r == UnwrapRow(Get(meta), loc[p].oldPass)
            IN  IF ~r.ok THEN Exit(p, "authentication failure")
                ELSE Goto(p, "rotateUpdate",
                          [loc[p] EXCEPT !.dek = Val(r.pt),
                                         !.rowHint = Get(meta).password_hint])
    /\ UNCHANGED <<db, linked, wrapped, overlaps, release>>

\* rotatePassword, lines 58-64: read the row and unwrap the DEK with the old
\* password.
RotateRead(p) ==
    /\ pc[p] = "rotatePassword"
    /\ IF meta = Null THEN Exit(p, "encryption_meta missing")
       ELSE IF Get(meta).is_locked = 0 THEN Exit(p, "database is not locked")
       ELSE LET r == UnwrapRow(Get(meta), loc[p].oldPass)
            IN  IF ~r.ok THEN Exit(p, "authentication failure")
                ELSE Goto(p, "rotateUpdate",
                          [loc[p] EXCEPT !.dek = Val(r.pt),
                                         !.rowHint = Get(meta).password_hint])
    /\ UNCHANGED <<db, linked, wrapped, overlaps, release>>

\* rotatePassword as it would be if it made a new DEK and encrypted every
\* ciphertext record again under it.
RotateUpdateRekeys(p) ==
    /\ pc[p] = "rotateUpdate"
    /\ LET newDek == Fresh(32, 1)
       IN  /\ meta' = Val(RotatedRow(Get(meta), newDek, loc[p].pass, loc[p].hint,
                                     loc[p].rowHint, Fresh(16, 1), Fresh(12, 1)))
           /\ creds' = [a \in Accounts |->
                  IF NotNull(creds[a]) /\ NotNull(Get(creds[a]).refresh_token_ct)
                  THEN LET r == getGmailClient(loc[p].dek, a, creds[a])
                       IN  IF r.ok
                           THEN Val(CipherCred(encryptAesGcm(
                                    newDek, BufferFrom(Get(r.refreshToken)), aadOf(a),
                                    Fresh(12, 1 + a))))
                           ELSE creds[a]
                  ELSE creds[a]]
    /\ wrapped' = [op |-> "rotate", pass |-> loc[p].pass, oldPass |-> loc[p].oldPass]
    /\ Exit(p, "Password rotated")
    /\ UNCHANGED <<accounts, linked, overlaps, release>>

\* rotatePassword as it would be if the new KEK were derived from the old
\* password.
RotateUpdateOldPass(p) ==
    /\ pc[p] = "rotateUpdate"
    /\ meta' = Val(RotatedRow(Get(meta), Get(loc[p].dek), loc[p].oldPass, loc[p].hint,
                              loc[p].rowHint, Fresh(16, 1), Fresh(12, 1)))
    /\ wrapped' = [op |-> "rotate", pass |-> loc[p].pass, oldPass |-> loc[p].oldPass]
    /\ Exit(p, "Password rotated")
    /\ UNCHANGED <<accounts, creds, linked, overlaps, release>>

\* rotatePassword, lines 66-72: the UPDATE of encryption_meta.
RotateUpdate(p) ==
    /\ pc[p] = "rotateUpdate"
    /\ meta' = Val(RotatedRow(Get(meta), Get(loc[p].dek), loc[p].pass, loc[p].hint,
                              loc[p].rowHint, Fresh(16, 1), Fresh(12, 1)))
    /\ wrapped' = [op |-> "rotate", pass |-> loc[p].pass, oldPass |-> loc[p].oldPass]
    /\ Exit(p, "Password rotated")
    /\ UNCHANGED <<accounts, creds, linked, overlaps, release>>

\* lockDatabase, lines 26-35: the first transaction writes the metadata.
LockMeta(p) ==
    /\ pc[p] = "lockDatabase"
    /\ meta' = Val(LockedRow(Get(meta), loc[p].pass, loc[p].hint,
                             Fresh(16, 1), Fresh(32, 1), Fresh(12, 1)))
    /\ wrapped' = [op |-> "lock", pass |-> loc[p].pass, oldPass |-> NoPass]
    /\ Goto(p, "lockSelect", [loc[p] EXCEPT !.hint = NoHint])
    /\ UNCHANGED <<accounts, creds, linked, overlaps, release>>

\* lockDatabase, lines 37-39: the plaintext rows are selected.
LockSelect(p) ==
    /\ pc[p] = "lockSelect"
    /\ Goto(p, "lockGetMeta", [loc[p] EXCEPT !.rows = PlaintextRows])
    /\ UNCHANGED <<db, linked, wrapped, overlaps, release>>

\* lockDatabase, lines 40-44: the metadata is read back and the DEK unwrapped.
LockGetMeta(p) ==
    /\ pc[p] = "lockGetMeta"
    /\ IF meta = Null THEN Exit(p, "encryption_meta missing after lock")
       ELSE LET r == UnwrapRow(Get(meta), loc[p].pass)
            IN  IF ~r.ok THEN Exit(p, "authentication failure")
                ELSE Goto(p, "lockCreds", [loc[p] EXCEPT !.dek = Val(r.pt)])
    /\ UNCHANGED <<db, linked, wrapped, overlaps, release>>

\* lockDatabase, lines 46-54: the second transaction encrypts the rows.
LockCreds(p) ==
    /\ pc[p] = "lockCreds"
    /\ creds' = EncryptedCreds(creds, loc[p].rows, Get(loc[p].dek),
                               [i \in 1..Cardinality(loc[p].rows) |-> Fresh(12, i)])
    /\ Exit(p, "Database locked")
    /\ UNCHANGED <<meta, accounts, linked, wrapped, overlaps, release>>

\* Another release of the code is installed while no command is running.
Upgrade(rel) ==
    /\ \A p \in Procs : pc[p] = "exited"
    /\ rel # release
    /\ release' = rel
    /\ UNCHANGED <<db, pc, loc, linked, wrapped, overlaps>>

\* The process is killed, or the machine goes down, between two statements;
\* a transaction that was open is rolled back, so each one is all or nothing.
Crash(p) ==
    /\ pc[p] # "exited"
    /\ Exit(p, "crashed")
    /\ UNCHANGED <<db, linked, wrapped, overlaps, release>>

\* Commands run by any number of processes at once.
Next ==
    \/ \E p \in Procs : start(p)
    \/ \E p \in Procs : add(p)
    \/ \E p \in Procs : list(p)
    \/ \E p \in Procs : remove(p)
    \/ \E p \in Procs : passwd(p)
    \/ \E p \in Procs : Unwrap(p)
    \/ \E p \in Procs : \E a \in Accounts : ReadSecret(p, a)
    \/ \E p \in Procs : StopServer(p)
    \/ \E p \in Procs : AddFail(p)
    \/ \E p \in Procs : AddInsert(p)
    \/ \E p \in Procs : List(p)
    \/ \E p \in Procs : Remove(p)
    \/ \E p \in Procs : RotateRead(p)
    \/ \E p \in Procs : RotateUpdate(p)
    \/ \E p \in Procs : LockMeta(p)
    \/ \E p \in Procs : LockSelect(p)
    \/ \E p \in Procs : LockGetMeta(p)
    \/ \E p \in Procs : LockCreds(p)
    \/ \E p \in Procs : Crash(p)

Spec == Init /\ [][Next]_vars

\* One process at a time, as the vault's operations are meant to be used: a
\* command, or a server, starts when the one before it has ended. Which
\* process runs it makes no difference, so it is always the first.
SeqProc == CHOOSE p \in Procs : \A q \in Procs : p <= q

NextSeq ==
    \/ start(SeqProc)
    \/ add(SeqProc)
    \/ list(SeqProc)
    \/ remove(SeqProc)
    \/ passwd(SeqProc)
    \/ Unwrap(SeqProc)
    \/ \E a \in Accounts : ReadSecret(SeqProc, a)
    \/ StopServer(SeqProc)
    \/ AddFail(SeqProc)
    \/ AddInsert(SeqProc)
    \/ List(SeqProc)
    \/ Remove(SeqProc)
    \/ RotateRead(SeqProc)
    \/ RotateUpdate(SeqProc)
    \/ LockMeta(SeqProc)
    \/ LockSelect(SeqProc)
    \/ LockGetMeta(SeqProc)
    \/ LockCreds(SeqProc)
    \/ Crash(SeqProc)

SpecSeq == Init /\ [][NextSeq]_vars

\* One process at a time, with releases of the code installed in between.
NextKdf ==
    \/ start(SeqProc)
    \/ add(SeqProc)
    \/ passwd(SeqProc)
    \/ Unwrap(SeqProc)
    \/ \E a \in Accounts : ReadSecret(SeqProc, a)
    \/ StopServer(SeqProc)
    \/ AddFail(SeqProc)
    \/ AddInsert(SeqProc)
    \/ RotateRead(SeqProc)
    \/ RotateUpdate(SeqProc)
    \/ LockMeta(SeqProc)
    \/ LockSelect(SeqProc)
    \/ LockGetMeta(SeqProc)
    \/ LockCreds(SeqProc)
    \/ \E rel \in Releases : Upgrade(rel)

SpecKdf == Init /\ [][NextKdf]_vars

\* A server beside commands that run one at a time: the last process only
\* ever runs start, the first runs add and passwd.
ServerProc == CHOOSE p \in Procs : \A q \in Procs : q <= p

NextServe ==
    \/ start(ServerProc)
    \/ Unwrap(ServerProc)
    \/ \E a \in Accounts : ReadSecret(ServerProc, a)
    \/ StopServer(ServerProc)
    \/ add(SeqProc)
    \/ passwd(SeqProc)
    \/ Unwrap(SeqProc)
    \/ AddFail(SeqProc)
    \/ AddInsert(SeqProc)
    \/ RotateRead(SeqProc)
    \/ RotateUpdate(SeqProc)
    \/ LockMeta(SeqProc)
    \/ LockSelect(SeqProc)
    \/ LockGetMeta(SeqProc)
    \/ LockCreds(SeqProc)

SpecServe == Init /\ [][NextServe]_vars

\* A server, read-only or not, and the tool calls it handles, between the
\* commands that link accounts and lock the database, one process at a time.
NextTools ==
    \/ start(SeqProc)
    \/ startReadOnly(SeqProc)
    \/ Unwrap(SeqProc)
    \/ \E a \in Accounts : ReadSecret(SeqProc, a)
    \/ \E valid \in BOOLEAN, key \in Accounts : LabelMessage(SeqProc, valid, key)
    \/ \E valid \in BOOLEAN, key \in Accounts : SendMessage(SeqProc, valid, key)
    \/ StopServer(SeqProc)
    \/ add(SeqProc)
    \/ AddFail(SeqProc)
    \/ AddInsert(SeqProc)
    \/ passwd(SeqProc)
    \/ RotateRead(SeqProc)
    \/ RotateUpdate(SeqProc)
    \/ LockMeta(SeqProc)
    \/ LockSelect(SeqProc)
    \/ LockGetMeta(SeqProc)
    \/ LockCreds(SeqProc)

SpecTools == Init /\ [][NextTools]_vars

\* add with the device code flow, between the commands that lock the
\* database and change its password, one process at a time.
NextDevice ==
    \/ add(SeqProc)
    \/ Unwrap(SeqProc)
    \/ DeviceCode(SeqProc)
    \/ \E data \in TokenResponses : DevicePoll(SeqProc, data)
    \/ DeviceCheck(SeqProc)
    \/ AddFail(SeqProc)
    \/ AddInsert(SeqProc)
    \/ passwd(SeqProc)
    \/ RotateRead(SeqProc)
    \/ RotateUpdate(SeqProc)
    \/ LockMeta(SeqProc)
    \/ LockSelect(SeqProc)
    \/ LockGetMeta(SeqProc)
    \/ LockCreds(SeqProc)

\* The loop of deviceCodeFlow goes on by itself: its timer fires, the fetch
\* it awaits is answered, and the statements after it run.
DeviceFairness ==
    /\ WF_vars(\E data \in TokenResponses : DevicePoll(SeqProc, data))
    /\ WF_vars(DeviceCheck(SeqProc))

SpecDevice == Init /\ [][NextDevice]_vars /\ DeviceFairness

\* passwd run by any number of processes at once, on a database whose
\* accounts are linked by one process.
NextPasswd ==
    \/ add(SeqProc)
    \/ Unwrap(SeqProc)
    \/ AddFail(SeqProc)
    \/ AddInsert(SeqProc)
    \/ \E p \in Procs : passwd(p)
    \/ \E p \in Procs : RotateRead(p)
    \/ \E p \in Procs : RotateUpdate(p)
    \/ \E p \in Procs : LockMeta(p)
    \/ \E p \in Procs : LockSelect(p)
    \/ \E p \in Procs : LockGetMeta(p)
    \/ \E p \in Procs : LockCreds(p)

SpecPasswd == Init /\ [][NextPasswd]_vars

\* passwd run by two processes at once, the first and the last, on a
\* database without accounts.
TwoProcs == {SeqProc, ServerProc}

NextRotate ==
    \/ \E p \in TwoProcs : passwd(p)
    \/ \E p \in TwoProcs : RotateRead(p)
    \/ \E p \in TwoProcs : RotateUpdate(p)
    \/ \E p \in TwoProcs : LockMeta(p)
    \/ \E p \in TwoProcs : LockSelect(p)
    \/ \E p \in TwoProcs : LockGetMeta(p)
    \/ \E p \in TwoProcs : LockCreds(p)

SpecRotate == Init /\ [][NextRotate]_vars

\* ================================================================ claims
\* The storage form of a credential row.
IsPlain(cred) ==
    /\ NotNull(cred.refresh_token)
    /\ cred.refresh_token_ct = Null /\ cred.refresh_token_iv = Null
    /\ cred.refresh_token_tag = Null

IsCipher(cred) ==
    /\ cred.refresh_token = Null
    /\ NotNull(cred.refresh_token_ct) /\ NotNull(cred.refresh_token_iv)
    /\ NotNull(cred.refresh_token_tag)

\* The accessor returns the secret OAuth granted for account a, read with dek.
ReadsOriginal(m, cr, password, a) ==
    LET uw == tryUnwrapDek(m, password)
        r == getGmailClient(uw.dek, a, cr[a])
    IN  uw.ok /\ r.ok /\ r.refreshToken = linked[a]

Quiet == \A p \in Procs : pc[p] = "exited"

\* C1: when lockDatabase(P) completes, tryUnwrapDek(P) succeeds and the
\* accessor, given the DEK it returns and each record's own account id, yields
\* exactly the secret that record held.
C1_LockUnlockFidelity ==
    [][\A p \in Procs : LockCreds(p) =>
          /\ tryUnwrapDek(meta', loc[p].pass).ok
          /\ \A a \in accounts' : ReadsOriginal(meta', creds', loc[p].pass, a)]_vars

\* C1 witness: a lock has completed on two records, and both decrypt to their
\* secrets under the lock's password.
C1_Witness ==
    /\ Quiet /\ wrapped.op = "lock" /\ accounts = Accounts
    /\ \A a \in Accounts :
          /\ ReadsOriginal(meta, creds, wrapped.pass, a)
          /\ getGmailClient(tryUnwrapDek(meta, wrapped.pass).dek, a, creds[a]).path = "decrypted"

\* C2: in every state reached after locking with password P and no rotation,
\* tryUnwrapDek with any password other than P fails with an authentication
\* failure and returns no DEK.
C2_WrongPasswordFails ==
    (isLocked(meta) /\ wrapped.op = "lock") =>
        \A pw \in Passwords \ {wrapped.pass} :
            tryUnwrapDek(meta, pw) = Thrown("authentication failure")

\* C2 witness: a command given a wrong password is about to call tryUnwrapDek
\* on a vault locked, and never rotated, with another one.
C2_Witness ==
    \E p \in Procs :
        /\ pc[p] = "tryUnwrapDek" /\ wrapped.op = "lock"
        /\ loc[p].pass # wrapped.pass
        /\ tryUnwrapDek(meta, wrapped.pass).ok

\* C3: a successful rotatePassword(P1, P2) makes tryUnwrapDek(P2) succeed and
\* read every record as P1 read it before, and, when P2 differs from P1, makes
\* tryUnwrapDek(P1) fail with an authentication failure.
C3_RotationPreservesSecrets ==
    [][\A p \in Procs : RotateUpdate(p) =>
          LET old == tryUnwrapDek(meta, loc[p].oldPass)
              new == tryUnwrapDek(meta', loc[p].pass)
          IN  /\ old.ok /\ new.ok
              /\ \A a \in Accounts :
                    getGmailClient(new.dek, a, creds'[a]) = getGmailClient(old.dek, a, creds[a])
              /\ loc[p].pass # loc[p].oldPass =>
                    tryUnwrapDek(meta', loc[p].oldPass) = Thrown("authentication failure")]_vars

\* C3 witness: the password was rotated to a different one, and two encrypted
\* records decrypt to their secrets under the new password and not the old.
C3_Witness ==
    /\ Quiet /\ wrapped.op = "rotate" /\ wrapped.pass # wrapped.oldPass
    /\ accounts = Accounts
    /\ \A a \in Accounts : IsCipher(Get(creds[a])) /\ ReadsOriginal(meta, creds, wrapped.pass, a)
    /\ ~tryUnwrapDek(meta, wrapped.oldPass).ok

\* C4: when lockDatabase returns, no credential record holds a plaintext
\* secret, and every record that held one holds the ciphertext form.
C4_LockPostcondition ==
    [][\A p \in Procs : LockCreds(p) =>
          \A a \in Accounts :
              /\ NotNull(creds'[a]) => Get(creds'[a]).refresh_token = Null
              /\ (NotNull(creds[a]) /\ IsPlain(Get(creds[a]))) =>
                    (NotNull(creds'[a]) /\ IsCipher(Get(creds'[a])))]_vars

\* C4 witness: a lock has completed and both records are in ciphertext form.
C4_Witness ==
    /\ Quiet /\ wrapped.op = "lock" /\ isLocked(meta) /\ accounts = Accounts
    /\ \A a \in Accounts : IsCipher(Get(creds[a]))

\* C5: in every durable state either the vault is Unlocked and every secret is
\* plaintext, or is_locked is true and every secret has been converted.
C5_LockAllOrNothing ==
    \/ ~isLocked(meta) /\ \A a \in accounts : IsPlain(Get(creds[a]))
    \/ isLocked(meta) /\ \A a \in accounts : IsCipher(Get(creds[a]))

\* C6: no server reads a plaintext secret straight from a record while
\* is_locked is true.
C6_NoPlaintextUseWhileLocked ==
    \A p \in Procs : pc[p] = "serving" => loc[p].read # "plain while locked"

\* C7: lockDatabase on a Locked vault fails at once and leaves the metadata
\* and every credential record as they were.
C7_LockOnLockedFails ==
    [][\A p \in Procs : (isLocked(meta) /\ LockMeta(p)) =>
          (meta' = meta /\ creds' = creds /\ pc'[p] = "exited")]_vars

\* C8: rotatePassword on an Unlocked vault fails: it ends there, the vault
\* stays Unlocked, the metadata and every credential record stay as they
\* were, and its UPDATE is only ever reached on a Locked vault.
C8_RotateOnUnlockedFails ==
    [][\A p \in Procs :
          /\ (RotateRead(p) /\ ~isLocked(meta)) =>
                (pc'[p] = "exited" /\ meta' = meta /\ creds' = creds /\ ~isLocked(meta'))
          /\ RotateUpdate(p) => isLocked(meta)]_vars

\* C8 witness: rotatePassword has been called, with both passwords given, on
\* an Unlocked vault that holds a plaintext record.
C8_Witness ==
    \E p \in Procs :
        /\ pc[p] = "rotatePassword" /\ ~isLocked(meta)
        /\ loc[p].pass # NoPass /\ loc[p].oldPass # NoPass
        /\ \E a \in accounts : IsPlain(Get(creds[a]))

\* C9: a successful rotatePassword leaves every credential record and
\* is_locked as they were, and the new metadata unwraps with the new password
\* to the DEK the old metadata unwrapped to with the old password.
C9_RotationOnlyRewraps ==
    [][\A p \in Procs : RotateUpdate(p) =>
          /\ creds' = creds /\ accounts' = accounts
          /\ Get(meta').is_locked = Get(meta).is_locked
          /\ tryUnwrapDek(meta, loc[p].oldPass).ok
          /\ tryUnwrapDek(meta', loc[p].pass) = tryUnwrapDek(meta, loc[p].oldPass)]_vars

\* C9 witness: after a rotation the vault is Locked, holds an encrypted
\* record, and unwraps to the DEK that record was encrypted under.
C9_Witness ==
    /\ wrapped.op = "rotate" /\ isLocked(meta)
    /\ tryUnwrapDek(meta, wrapped.pass).ok
    /\ \E a \in accounts :
          /\ IsCipher(Get(creds[a]))
          /\ Get(Get(creds[a]).refresh_token_ct)[2] = Get(tryUnwrapDek(meta, wrapped.pass).dek)

\* C10: once is_locked is true, no step of any command makes it false again.
C10_NoPathBackToUnlocked == [][isLocked(meta) => isLocked(meta')]_vars

\* C10 witness: the vault is Locked after a rotation, and a server started on
\* it has read a record.
C10_Witness ==
    /\ isLocked(meta) /\ wrapped.op = "rotate"
    /\ \E p \in Procs : pc[p] = "serving" /\ loc[p].read = "decrypted"

\* C11: in every reachable state is_locked is true if and only if kdf_salt is
\* present, and if and only if the wrapped DEK (ciphertext, nonce and tag) is
\* present.
C11_MetadataConsistent ==
    NotNull(meta) =>
        LET row == Get(meta)
        IN  /\ (row.is_locked # 0) <=> NotNull(row.kdf_salt)
            /\ (row.is_locked # 0) <=> NotNull(row.dek_ct)
            /\ (row.is_locked # 0) <=> NotNull(row.dek_iv)
            /\ (row.is_locked # 0) <=> NotNull(row.dek_tag)

\* C11 witness: the metadata row of a vault that was locked and then rotated
\* has is_locked, the salt and the wrapped DEK all set.
C11_Witness ==
    /\ wrapped.op = "rotate" /\ NotNull(meta)
    /\ Get(meta).is_locked = 1 /\ NotNull(Get(meta).kdf_salt)
    /\ NotNull(Get(meta).dek_ct) /\ NotNull(Get(meta).dek_iv)
    /\ NotNull(Get(meta).dek_tag)

\* C12: in every reachable state every credential record has exactly one
\* storage form: the plaintext set and ciphertext, nonce and tag absent, or
\* ciphertext, nonce and tag set and the plaintext absent.
C12_ExactlyOneForm ==
    \A a \in Accounts :
        NotNull(creds[a]) =>
            /\ IsPlain(Get(creds[a])) \/ IsCipher(Get(creds[a]))
            /\ ~(IsPlain(Get(creds[a])) /\ IsCipher(Get(creds[a])))

\* C12 witness: lockDatabase stands between its two transactions with a
\* plaintext record to convert, beside a record that add encrypted.
C12_Witness ==
    /\ isLocked(meta)
    /\ \E a, b \in accounts : IsPlain(Get(creds[a])) /\ IsCipher(Get(creds[b]))

\* What the accessor returns for account b when b's slot holds the stored
\* ciphertext, nonce and tag of account a, read with the vault's DEK.
ReadSubstituted(a, b) ==
    getGmailClient(tryUnwrapDek(meta, wrapped.pass).dek, b, creds[a])

\* C13: when the ciphertext, nonce and tag of record A stand in the slot of a
\* record B with another account id, reading B through the accessor with the
\* correct DEK fails with an authentication failure and returns no secret,
\* while A read in its own slot decrypts.
C13_SubstitutionDetected ==
    \A a \in accounts : IsCipher(Get(creds[a])) =>
        /\ tryUnwrapDek(meta, wrapped.pass).ok
        /\ ReadSubstituted(a, a).ok
        /\ \A b \in Accounts \ {a} : ReadSubstituted(a, b) = Failed("authentication failure")

\* C13 witness: two encrypted records of different accounts, each of which
\* decrypts to its own secret in its own slot and fails in the other's.
C13_Witness ==
    \E a, b \in accounts :
        /\ a # b /\ IsCipher(Get(creds[a])) /\ IsCipher(Get(creds[b]))
        /\ ReadSubstituted(a, a).refreshToken = linked[a]
        /\ ReadSubstituted(b, b).refreshToken = linked[b]
        /\ ~ReadSubstituted(a, b).ok /\ ~ReadSubstituted(b, a).ok

\* C14: tryUnwrapDek, whether it succeeds or fails, leaves the metadata and
\* every credential record as they were, and called again with the same
\* password on the state it leaves it returns the same outcome: the same DEK,
\* or the same failure.
C14_UnlockHasNoSideEffect ==
    [][\A p \in Procs : Unwrap(p) =>
          LET uw == tryUnwrapDek(meta, loc[p].pass)
          IN  /\ meta' = meta /\ accounts' = accounts /\ creds' = creds
              /\ tryUnwrapDek(meta', loc[p].pass) = uw
              /\ uw.ok <=> pc'[p] # "exited"
              /\ (uw.ok /\ loc[p].cmd \in KeepsDek) => loc'[p].dek = uw.dek]_vars

\* C14 witness: a server started on a Locked vault holds the DEK that
\* tryUnwrapDek returned, and a second call returns that DEK again.
C14_Witness ==
    \E p \in Procs :
        /\ pc[p] = "serving" /\ loc[p].locked /\ NotNull(loc[p].dek)
        /\ tryUnwrapDek(meta, wrapped.pass).ok
        /\ tryUnwrapDek(meta, wrapped.pass).dek = loc[p].dek
        /\ \E a \in accounts : IsCipher(Get(creds[a]))

\* The column holds 32 random bytes in the clear; only a DEK is 32 random
\* bytes.
HoldsDek(c) == NotNull(c) /\ Get(c)[1] = "rnd" /\ Get(c)[2] = 32

\* The row's dek_ct is an AES-GCM ciphertext of a DEK under a key that scrypt
\* derived from a password.
WrappedUnderKek(row) ==
    LET ct == Get(row.dek_ct)
    IN  /\ ct[1] = "gcm" /\ ct[2][1] = "scrypt" /\ ct[2][2] \in Passwords
        /\ ct[4][1] = "rnd" /\ ct[4][2] = 32

\* C15: in every reachable state no column of the metadata row or of a
\* credential row holds the DEK in unwrapped form; what lock and rotate store
\* of it is its encryption under a password-derived KEK.
C15_DekNeverStored ==
    /\ NotNull(meta) =>
          /\ ~HoldsDek(Get(meta).kdf_salt) /\ ~HoldsDek(Get(meta).kdf_params_json)
          /\ ~HoldsDek(Get(meta).dek_ct) /\ ~HoldsDek(Get(meta).dek_iv)
          /\ ~HoldsDek(Get(meta).dek_tag)
          /\ Get(meta).is_locked # 0 => WrappedUnderKek(Get(meta))
    /\ \A a \in Accounts : NotNull(creds[a]) =>
          /\ ~HoldsDek(Get(creds[a]).refresh_token)
          /\ ~HoldsDek(Get(creds[a]).refresh_token_ct)
          /\ ~HoldsDek(Get(creds[a]).refresh_token_iv)
          /\ ~HoldsDek(Get(creds[a]).refresh_token_tag)

\* C15 witness: after a lock and a rotation a running command holds the DEK
\* in memory, the metadata holds it wrapped, and a record is encrypted under
\* it.
C15_Witness ==
    \E p \in Procs :
        /\ wrapped.op = "rotate" /\ isLocked(meta) /\ HoldsDek(loc[p].dek)
        /\ Get(Get(meta).dek_ct)[4] = Get(loc[p].dek)
        /\ \E a \in accounts :
              /\ IsCipher(Get(creds[a]))
              /\ Get(Get(creds[a]).refresh_token_ct)[2] = Get(loc[p].dek)

\* Where start, add, list and remove perform their action.
Bodies == {"serving", "oauth", "list", "remove"}

\* C16: on a locked database a command that goes on after its launch has a
\* password and goes to tryUnwrapDek (start, add, list, remove) or to
\* rotatePassword (passwd); start, add, list and remove reach their action
\* only through a tryUnwrapDek that succeeds with the supplied password, and
\* change nothing before it; with the password missing or wrong they exit.
\* The metadata of a locked database changes only by a rotation whose old
\* password unwraps the DEK.
C16_LockedNeedsPassword ==
    [][\A p \in Procs :
          /\ (pc[p] = "exited" /\ pc'[p] # "exited" /\ isLocked(meta')) =>
                /\ pc'[p] \in {"tryUnwrapDek", "rotatePassword"}
                /\ pc'[p] = "tryUnwrapDek" <=> loc'[p].cmd # "passwd"
                /\ loc'[p].pass \in Passwords
                /\ meta' = meta /\ accounts' = accounts /\ creds' = creds
          /\ (pc[p] \notin Bodies /\ pc'[p] \in Bodies /\ isLocked(meta')) =>
                /\ pc[p] = "tryUnwrapDek"
                /\ tryUnwrapDek(meta, loc[p].pass).ok
          /\ (pc[p] = "tryUnwrapDek" /\ pc'[p] # "tryUnwrapDek"
                /\ ~tryUnwrapDek(meta, loc[p].pass).ok) =>
                /\ pc'[p] = "exited"
                /\ meta' = meta /\ accounts' = accounts /\ creds' = creds
          /\ (pc[p] = "rotatePassword" /\ pc'[p] # "rotatePassword"
                /\ ~tryUnwrapDek(meta, loc[p].oldPass).ok) =>
                /\ pc'[p] = "exited"
                /\ meta' = meta /\ accounts' = accounts /\ creds' = creds
          /\ (isLocked(meta) /\ meta' # meta) =>
                \E q \in Procs : /\ pc[q] = "rotateUpdate"
                                 /\ tryUnwrapDek(meta, loc[q].oldPass).ok]_vars

\* C16 witness: remove of an existing account was given a wrong password on
\* a locked database and is about to call tryUnwrapDek.
C16_Witness ==
    \E p \in Procs :
        /\ isLocked(meta) /\ pc[p] = "tryUnwrapDek" /\ loc[p].cmd = "remove"
        /\ loc[p].key \in accounts
        /\ ~tryUnwrapDek(meta, loc[p].pass).ok
        /\ tryUnwrapDek(meta, wrapped.pass).ok

\* The error of getGmailClient's line 37.
NoDekError == "Database is locked and password has not been provided"

\* C17: read by a session that has no DEK, a record holding plaintext is
\* returned as it is, and a record holding ciphertext fails with the
\* 'Database is locked and password has not been provided' error and yields
\* no secret; a server without a DEK never decrypts, also when the vault was
\* locked by another process after it started.
C17_AccessorWithoutDek ==
    /\ \A a \in Accounts : NotNull(creds[a]) =>
          LET r == getGmailClient(Null, a, creds[a])
          IN  IF IsPlain(Get(creds[a]))
              THEN /\ r.ok /\ r.path = "plain"
                   /\ r.refreshToken = Get(creds[a]).refresh_token
                   /\ r.refreshToken = linked[a]
              ELSE r = Failed(NoDekError)
    /\ \A p \in Procs : (pc[p] = "serving" /\ loc[p].dek = Null) =>
          loc[p].read \in {"none", "plain", "plain while locked", NoDekError,
                           "Account credentials not found"}

\* C17 witness: a server that started on an Unlocked vault, without a DEK,
\* has been refused a record that another process encrypted meanwhile, and
\* that process has finished.
C17_Witness ==
    \E p \in Procs :
        /\ pc[p] = "serving" /\ ~loc[p].locked /\ loc[p].dek = Null
        /\ loc[p].read = NoDekError
        /\ isLocked(meta) /\ wrapped.op = "lock"
        /\ \A q \in Procs \ {p} : pc[q] = "exited"
        /\ \A a \in accounts : IsCipher(Get(creds[a]))

\* C18: when the accessor decrypts a ciphertext record and the tag check
\* fails (here: the record's slot holds another record's ciphertext, nonce
\* and tag), the caller gets the same error as a session without a DEK.
C18_TagFailureSurfacedAsLocked ==
    \A a \in accounts : IsCipher(Get(creds[a])) =>
        \A b \in Accounts \ {a} :
            /\ ~ReadSubstituted(a, b).ok
            /\ ReadSubstituted(a, b).err = NoDekError

\* The encryptions the program has stored: <<key, iv, tag, ct, aad, plaintext>>
\* of the wrapped DEK and of every encrypted credential, with the key each
\* was made under.
Sealed ==
    (IF isLocked(meta)
     THEN {<<Get(Get(meta).dek_ct)[2], Get(Get(meta).dek_iv), Get(Get(meta).dek_tag),
             Get(Get(meta).dek_ct), NoAad, Get(Get(meta).dek_ct)[4]>>}
     ELSE {})
    \cup {<<Get(Get(creds[a]).refresh_token_ct)[2], Get(Get(creds[a]).refresh_token_iv),
            Get(Get(creds[a]).refresh_token_tag), Get(Get(creds[a]).refresh_token_ct),
            aadOf(a), BufferFrom(Get(linked[a]))>> :
          a \in {b \in accounts : IsCipher(Get(creds[b]))}}

\* Associated data other than that of an encryption.
OtherAads(aad) == ({NoAad} \cup {aadOf(a) : a \in Accounts}) \ {aad}

\* The round trip, and the failure on another key (a DEK never drawn, a KEK
\* of another password, the key of another stored encryption), on other
\* associated data, and on the ciphertext or tag of another stored
\* encryption.
RejectsOtherInputs(s) ==
    /\ decryptAesGcm(s[1], s[2], s[3], s[4], s[5]) = [ok |-> TRUE, pt |-> s[6]]
    /\ decryptAesGcm(randomBytes(32, 0), s[2], s[3], s[4], s[5]) = AuthFailure
    /\ decryptAesGcm(deriveKek(NoPass, s[2], DEFAULT_KDF), s[2], s[3], s[4], s[5])
          = AuthFailure
    /\ \A t \in Sealed : t[1] # s[1] =>
          decryptAesGcm(t[1], s[2], s[3], s[4], s[5]) = AuthFailure
    /\ \A a \in OtherAads(s[5]) : decryptAesGcm(s[1], s[2], s[3], s[4], a) = AuthFailure
    /\ \A t \in Sealed \ {s} :
          /\ decryptAesGcm(s[1], s[2], t[3], s[4], s[5]) = AuthFailure
          /\ decryptAesGcm(s[1], s[2], s[3], t[4], s[5]) = AuthFailure

\* C19: for every output of encryptAesGcm, decryptAesGcm returns the
\* plaintext given the same key, nonce, tag, ciphertext and associated data,
\* and fails, always with the one authentication failure, when the key, the
\* ciphertext, the tag or the associated data is changed.
C19_TamperDetected ==
    \A s \in Sealed :
        /\ RejectsOtherInputs(s)
        /\ \A n \in ShortTagLengths :
              decryptAesGcm(s[1], s[2], subarray(s[3], n), s[4], s[5]) = AuthFailure

\* C20: a vault locked or rotated under one release's DEFAULT_KDF still
\* unlocks with its password under every release installed later:
\* tryUnwrapDek succeeds, and rotatePassword given that password as the old
\* one unwraps the DEK and goes on to its UPDATE.
C20_KdfParamsTravel ==
    /\ [](isLocked(meta) => tryUnwrapDek(meta, wrapped.pass).ok)
    /\ [][\A p \in Procs :
             (pc[p] = "rotatePassword" /\ pc'[p] # "rotatePassword"
              /\ isLocked(meta) /\ loc[p].oldPass = wrapped.pass) =>
                 /\ pc'[p] = "rotateUpdate"
                 /\ loc'[p].dek = tryUnwrapDek(meta, wrapped.pass).dek]_vars

\* C20 witness: the metadata was written under parameters that are no longer
\* the defaults, and a server started under the new defaults unwrapped the
\* DEK and decrypted a record.
C20_Witness ==
    \E p \in Procs :
        /\ isLocked(meta)
        /\ JSONparse(Get(Get(meta).kdf_params_json)) # DEFAULT_KDF
        /\ pc[p] = "serving" /\ loc[p].read = "decrypted"
        /\ loc[p].dek = tryUnwrapDek(meta, wrapped.pass).dek

\* C21: on a server started with --read-only, every well-formed call of the
\* send-message or label-message tool ends with the 'Server is in read-only
\* mode' error, so none reaches the Gmail send or modify API; the read tools
\* work as they do on any server.
C21_ReadOnlyBlocksWrites ==
    \A p \in Procs : (pc[p] = "serving" /\ readOnly(p)) =>
        /\ (loc[p].tool # "none" /\ loc[p].result # "ZodError") =>
               loc[p].result = ReadOnlyError
        /\ loc[p].read # ReadOnlyError

\* C22: rotatePassword on a Locked vault with a wrong old password fails
\* with the authentication failure tryUnwrapDek fails with, and leaves the
\* metadata row (salt, parameters, wrapped DEK, hint) and every credential
\* record as they were; every password unlocks afterwards exactly as it did
\* before, and the password of the latest lock or rotation still unlocks.
C22_FailedRotationChangesNothing ==
    [][\A p \in Procs :
          (RotateRead(p) /\ isLocked(meta)
             /\ ~UnwrapRow(Get(meta), loc[p].oldPass).ok) =>
                /\ pc'[p] = "exited"
                /\ tryUnwrapDek(meta, loc[p].oldPass) = Thrown("authentication failure")
                /\ meta' = meta /\ accounts' = accounts /\ creds' = creds
                /\ \A pw \in Passwords :
                       tryUnwrapDek(meta', pw) = tryUnwrapDek(meta, pw)
                /\ tryUnwrapDek(meta', wrapped.pass).ok]_vars

\* C22 witness: rotatePassword has been called on a Locked vault holding an
\* encrypted record, with an old password that does not unwrap the DEK and
\* a hint that differs from the stored one.
C22_Witness ==
    \E p \in Procs :
        /\ pc[p] = "rotatePassword" /\ isLocked(meta)
        /\ ~tryUnwrapDek(meta, loc[p].oldPass).ok
        /\ tryUnwrapDek(meta, wrapped.pass).ok
        /\ loc[p].hint # NoHint /\ Get(meta).password_hint # Val(loc[p].hint)
        /\ \E a \in accounts : IsCipher(Get(creds[a]))

\* C23: deviceCodeFlow polls again when the response's error is
\* authorization_pending or slow_down, ends with an error on any other error
\* value, and returns to add only from a response that has no error and
\* carries a refresh_token; once the endpoint has answered with something
\* other than those two errors the flow ends, and after one of the two it
\* polls again.
C23_DevicePolling ==
    /\ [][\A p \in Procs : DeviceCheck(p) =>
             LET data == Get(loc[p].data)
             IN  /\ data.error \in RetryErrors <=> pc'[p] = "devicePoll"
                 /\ (data.error # "" /\ data.error \notin RetryErrors) =>
                        pc'[p] = "exited"
                 /\ pc'[p] = "profile" <=> (data.error = "" /\ data.refresh_token)
                 /\ pc'[p] \in {"devicePoll", "profile", "exited"}]_vars
    /\ \A p \in Procs :
          (pc[p] = "deviceCheck" /\ Get(loc[p].data).error \notin RetryErrors)
              ~> (pc[p] \notin {"devicePoll", "deviceCheck"})
    /\ \A p \in Procs :
          (pc[p] = "deviceCheck" /\ Get(loc[p].data).error \in RetryErrors)
              ~> (pc[p] = "devicePoll")

\* C23 witness: deviceCodeFlow has returned to add the tokens of a response
\* that carries a refresh_token, on a database that already holds an account.
C23_Witness ==
    \E p \in Procs :
        /\ pc[p] = "profile" /\ NotNull(loc[p].data)
        /\ Get(loc[p].data).error = "" /\ Get(loc[p].data).refresh_token
        /\ accounts # {}

\* C24: migrate on a fresh store creates the one metadata row with is_locked
\* false and no salt, parameters, wrapped DEK or hint, so that isLocked is
\* false; on a store that has the row, migrate leaves the metadata, the
\* accounts and the credentials as they were, whatever command runs it.
C24_MigrateNeverResets ==
    /\ [][meta = Null =>
             /\ meta' \in {Null, Val(FreshMeta)}
             /\ accounts' = accounts /\ creds' = creds
             /\ ~isLocked(migrate(meta))
             /\ Get(migrate(meta)).is_locked = 0
             /\ \A c \in {"kdf_salt", "kdf_params_json", "dek_ct", "dek_iv",
                           "dek_tag", "password_hint"} :
                    Get(migrate(meta))[c] = Null]_vars
    /\ [][\A p \in Procs :
             (meta # Null /\ pc[p] = "exited" /\ pc'[p] # "exited") =>
                /\ migrate(meta) = meta
                /\ meta' = meta /\ accounts' = accounts /\ creds' = creds]_vars

\* C24 witness: a command has been launched, and migrate has run, on a Locked
\* store that holds a hint and an encrypted record.
C24_Witness ==
    \E p \in Procs :
        /\ pc[p] = "tryUnwrapDek" /\ loc[p].cmd = "list"
        /\ isLocked(meta) /\ NotNull(Get(meta).password_hint)
        /\ \E a \in accounts : IsCipher(Get(creds[a]))

\* C25: after a successful rotatePassword(old, new, hint?) the stored salt is
\* one that was not stored before, the stored parameters are the current
\* defaults, the stored wrapped DEK unwraps under the new password to the DEK
\* the call unwrapped, and the stored hint is the hint passed to the call,
\* none when no hint was passed.
C25_RotateOverwrites ==
    [][\A p \in Procs : RotateUpdate(p) =>
          LET row == Get(meta')
          IN  /\ row.kdf_salt # Get(meta).kdf_salt
              /\ Get(row.kdf_salt) \notin UsedRnd
              /\ row.kdf_params_json = Val(JSONstringify(DEFAULT_KDF))
              /\ UnwrapRow(row, loc[p].pass).ok
              /\ Val(UnwrapRow(row, loc[p].pass).pt) = loc[p].dek
              /\ row.password_hint =
                     IF loc[p].hint # NoHint THEN Val(loc[p].hint) ELSE Null]_vars

\* The DEK the metadata row wraps, unwrapped with the password of the latest
\* lock or rotation; Null when the row holds none.
WrappedDek(m) ==
    IF isLocked(m) /\ tryUnwrapDek(m, wrapped.pass).ok
    THEN tryUnwrapDek(m, wrapped.pass).dek ELSE Null

\* C26: with passwd commands (lock and rotate) run one after another or at
\* once by any processes, every record stored as ciphertext decrypts under
\* the DEK the current metadata wraps, and no step replaces the wrapped DEK
\* by another DEK while there are ciphertext records.
C26_CiphertextsMatchWrappedDek ==
    /\ [](\A a \in accounts : IsCipher(Get(creds[a])) =>
             /\ NotNull(WrappedDek(meta))
             /\ getGmailClient(WrappedDek(meta), a, creds[a]).ok
             /\ getGmailClient(WrappedDek(meta), a, creds[a]).refreshToken
                    = linked[a])
    /\ [][(\E a \in accounts : IsCipher(Get(creds[a]))) =>
             WrappedDek(meta)' = WrappedDek(meta)]_vars

\* C27: whatever way an add command and a lockDatabase interleave, once both
\* have finished a Locked vault holds no record with a plaintext secret.
C27_AddDuringLockLeavesNoPlaintext ==
    ((\A p \in Procs : pc[p] = "exited") /\ isLocked(meta)) =>
        \A a \in accounts : ~IsPlain(Get(creds[a]))

\* C28: however two rotatePassword calls on a Locked vault interleave, each
\* call that reports success has written a row that its new password
\* unlocks, to the DEK it unwrapped; and whenever the latest write is a
\* rotation, the vault unlocks with the new password of the call that wrote
\* last.
C28_RotationsTakeEffect ==
    /\ [][\A p \in Procs : RotateUpdate(p) =>
             /\ pc'[p] = "exited"
             /\ tryUnwrapDek(meta', loc[p].pass).ok
             /\ tryUnwrapDek(meta', loc[p].pass).dek = loc[p].dek
             /\ wrapped'.pass = loc[p].pass]_vars
    /\ [](wrapped.op = "rotate" => tryUnwrapDek(meta, wrapped.pass).ok)

\* C28 witness: one rotation has written and ended, while another call, which
\* read the row before that write (its old password no longer unlocks) and
\* brings a different new password, is about to write.
C28_Witness ==
    \E q \in Procs :
        /\ pc[q] = "rotateUpdate" /\ wrapped.op = "rotate"
        /\ \A p \in Procs \ {q} : pc[p] = "exited"
        /\ ~tryUnwrapDek(meta, loc[q].oldPass).ok
        /\ loc[q].pass # wrapped.pass
        /\ isLocked(meta) /\ tryUnwrapDek(meta, wrapped.pass).dek = loc[q].dek

\* The server process p, holding the DEK it unwrapped at startup, reads
\* every ciphertext record of cr correctly.
SessionReadsAll(p, cr) ==
    \A a \in accounts : IsCipher(Get(cr[a])) =>
        LET r == getGmailClient(loc[p].dek, a, cr[a])
        IN  r.ok /\ r.path = "decrypted" /\ r.refreshToken = linked[a]

\* C29: a server that unwrapped the DEK at startup decrypts every ciphertext
\* record correctly in every state, and goes on doing so across each
\* rotatePassword of another process, also when the password it was started
\* with no longer unlocks the vault; none of its reads fails authentication.
C29_SessionDekSurvivesRotation ==
    /\ [](\A p \in Procs : (pc[p] = "serving" /\ NotNull(loc[p].dek)) =>
             /\ SessionReadsAll(p, creds)
             /\ loc[p].read # "authentication failure")
    /\ [][\A p, q \in Procs :
             (pc[p] = "serving" /\ NotNull(loc[p].dek) /\ RotateUpdate(q)) =>
                /\ pc'[p] = "serving" /\ loc'[p] = loc[p]
                /\ creds' = creds /\ SessionReadsAll(p, creds')
                /\ tryUnwrapDek(meta', loc[q].pass).dek = loc[p].dek]_vars

\* C29 witness: a server holding the DEK has decrypted a record, and beside
\* it a rotation to a different password, by another process, has read the
\* row and is about to write.
C29_Witness ==
    \E p, q \in Procs :
        /\ pc[p] = "serving" /\ NotNull(loc[p].dek) /\ loc[p].read = "decrypted"
        /\ pc[q] = "rotateUpdate" /\ loc[q].pass # loc[q].oldPass
        /\ wrapped.op = "rotate"
        /\ \E a \in accounts : IsCipher(Get(creds[a]))

\* C30: add on a Locked vault, having unwrapped the DEK with the correct
\* password, inserts one record in ciphertext form only, encrypted under the
\* DEK the metadata wraps with associated data naming the new account id, so
\* that the accessor given the unwrapped DEK returns the linked refresh
\* token; add on an Unlocked vault inserts the record in plaintext form only.
C30_AddStoresByVaultState ==
    [][\A p \in Procs : AddInsert(p) =>
          /\ Cardinality(accounts' \ accounts) = 1
          /\ \A id \in accounts' \ accounts :
                LET cred == Get(creds'[id])
                IN  /\ creds[id] = Null /\ NotNull(creds'[id])
                    /\ linked'[id] = Val(refresh_token(id))
                    /\ \A a \in Accounts \ {id} : creds'[a] = creds[a]
                    /\ isLocked(meta) <=> loc[p].locked
                    /\ IF isLocked(meta)
                       THEN /\ IsCipher(cred) /\ cred.refresh_token = Null
                            /\ NotNull(WrappedDek(meta'))
                            /\ WrappedDek(meta') = loc[p].dek
                            /\ decryptAesGcm(Get(WrappedDek(meta')),
                                             Get(cred.refresh_token_iv),
                                             Get(cred.refresh_token_tag),
                                             Get(cred.refresh_token_ct), aadOf(id)).ok
                            /\ getGmailClient(WrappedDek(meta'), id, creds'[id])
                                   = [ok |-> TRUE, err |-> "",
                                      refreshToken |-> linked'[id],
                                      path |-> "decrypted"]
                       ELSE /\ cred = PlainCred(refresh_token(id))
                            /\ IsPlain(cred) /\ cred.refresh_token_ct = Null
                            /\ cred.refresh_token_iv = Null
                            /\ cred.refresh_token_tag = Null]_vars

\* C30 witness: add, on a Locked vault that already holds an encrypted
\* record, has unwrapped the DEK and is about to insert.
C30_Witness ==
    \E p \in Procs :
        /\ pc[p] = "oauth" /\ loc[p].cmd = "add"
        /\ loc[p].locked /\ NotNull(loc[p].dek) /\ isLocked(meta)
        /\ Accounts \ UsedIds # {}
        /\ \E a \in accounts : IsCipher(Get(creds[a]))

====
